---- MODULE Spec2Model ----
(***************************************************************************)
(* A model of the HHM plugins of saviola777/hhm-plugins: sav/ban,          *)
(* sav/force-same-name, sav/players and sav/roles, together with the part  *)
(* of the sav/test mock room (the native room API) they run against.       *)
(*                                                                         *)
(* Every plugin keeps its own state; each plugin gets its own              *)
(* specification (SpecBan, SpecName, ...) over the shared variables, and   *)
(* the variables of the other plugins stay at their initial value.         *)
(***************************************************************************)
EXTENDS Integers, Sequences, FiniteSets, TLC

(***************************************************************************)
(* Bounds of the model and the small input sets.                           *)
(***************************************************************************)
\* number of players that join during one room run (player ids 1..MaxPlayers)
MaxPlayers == 3
\* number of room restarts (onPersist, fresh instance, onRestore)
MaxRestarts == 1

Auths == {"a1", "a2"}
Conns == {"c1", "c2"}
Names == {"n1", "n2"}

Range(s) == {s[i] : i \in DOMAIN s}

\* The bannedConns array of the mock room is only pushed to, searched and
\* spliced, so it is kept as the number of occurrences of every conn.
\* bannedConns.push(x)
Push(b, x) == [b EXCEPT ![x] = @ + 1]
\* i = bannedConns.indexOf(x); bannedConns.splice(i, i >= 0 ? 1 : 0)
RemoveFirst(b, x) == [b EXCEPT ![x] = IF @ > 0 THEN @ - 1 ELSE 0]
\* bannedConns.includes(x)
Includes(b, x) == b[x] > 0

\* the sequence without the element x (order kept)
Without(s, x) == SelectSeq(s, LAMBDA y : y # x)

\* a Map / object as a function on its keys
MapSet(m, k, v) == [x \in (DOMAIN m) \cup {k} |-> IF x = k THEN v ELSE m[x]]
MapDelete(m, k) == [x \in (DOMAIN m) \ {k} |-> m[x]]
EmptyMap == [x \in {} |-> 0]

VARIABLES
  \* ---- sav/test mock room (native state)
  players,            \* players[]: id -> [auth, conn, name, team, admin]
  playersOnline,      \* ids in the room, in the order of the native player list
  nativeBans,         \* bannedConns of the mock room (an array)
  \* ---- sav/ban
  bannedAuths,        \* Map auth -> array of conns
  bannedConns,        \* Set of conns
  recentlyClearedBans,\* Set of auths
  restarts,           \* number of restarts so far
  banKicked,          \* history: auths kicked with ban = true and not cleared since
  preRestart,         \* history: what was banned when the room last restarted
  \* ---- sav/force-same-name
  auths,              \* auth -> nick
  conns,              \* conn -> nick
  accepted,           \* history: <<auth, conn, name>> of every accepted join
  \* ---- sav/players
  playersById,        \* id -> player object of the plugin
  userDataByAuth,     \* auth -> [ids, conns, names]
  idToAuth,           \* id -> auth
  playersByConn,      \* conn -> set of ids
  nativeQueue,        \* requests the native API has accepted and not yet done
  delivered,          \* history: <<event, id>> passed on to the plugin handlers
  calls,              \* number of API calls of other plugins so far
  \* ---- sav/roles
  roles,              \* config.roles: role -> password
  playerRoles,        \* id -> roles of the player
  userRoles,          \* auth -> roles of the user
  defaultRole,        \* config.defaultRole
  \* ---- plugin manager of HHM, as sav/plugin-control and sav/cron use it
  loadedPlugins,      \* names of the loaded plugins
  enabledPlugins,     \* names of the enabled plugins
  suspended,          \* history: handlers that returned at an await
  \* ---- sav/cron
  onceHandlers,       \* <<plugin, handler>>: the onCron...Once properties
  timeouts,           \* <<plugin, handler>> -> number of pending setTimeout
  cronRan,            \* history: the one-time handlers that have run
  cronSets,           \* number of one-time handlers plugins have set so far
  outside,            \* history: what ran outside an event dispatch
  \* ---- sav/test mock room, game state
  roomState,          \* [gameStarted, gamePaused]
  \* ---- observation of the last operation
  last

banVars  == <<bannedAuths, bannedConns, recentlyClearedBans, restarts,
              banKicked, preRestart>>
nameVars == <<auths, conns, accepted>>
roomVars == <<players, playersOnline, nativeBans>>
playersVars == <<playersById, userDataByAuth, idToAuth, playersByConn,
                 nativeQueue, delivered, calls>>
rolesVars == <<roles, playerRoles, userRoles, defaultRole>>
pluginVars == <<playersVars, rolesVars>>
managerVars == <<loadedPlugins, enabledPlugins, suspended>>
cronVars == <<onceHandlers, timeouts, cronRan, cronSets, outside>>
extVars  == <<managerVars, cronVars, roomState>>
vars     == <<roomVars, banVars, nameVars, pluginVars, extVars, last>>

NoLast == [op |-> "init", auth |-> "", name |-> "",
           kicked |-> FALSE, ban |-> FALSE,
           authWasBanned |-> FALSE, connWasBanned |-> FALSE,
           authOther |-> FALSE, connOther |-> FALSE,
           threw |-> FALSE, chained |-> 0, prev |-> "",
           id |-> 0, team |-> 0, admin |-> FALSE, ghosts |-> {},
           visible |-> FALSE, role |-> "", password |-> "",
           granted |-> FALSE, userRole |-> FALSE, returned |-> FALSE,
           events |-> {}, notified |-> {}, had |-> {},
           managerCalled |-> FALSE]

NoNativeBans == [c \in Conns |-> 0]
RoomInit == players = <<>> /\ playersOnline = <<>> /\ nativeBans = NoNativeBans
BanInit ==
  /\ bannedAuths = EmptyMap
  /\ bannedConns = {}
  /\ recentlyClearedBans = {}
  /\ restarts = 0
  /\ banKicked = {}
  /\ preRestart = [auths |-> {}, conns |-> {}]
RolesInit ==
  /\ roles = EmptyMap /\ playerRoles = EmptyMap /\ userRoles = EmptyMap
  /\ defaultRole = "<undefined>"
NameInit == auths = EmptyMap /\ conns = EmptyMap /\ accepted = {}
PlayersInit ==
  /\ playersById = EmptyMap
  /\ userDataByAuth = EmptyMap
  /\ idToAuth = EmptyMap
  /\ playersByConn = EmptyMap
  /\ nativeQueue = <<>>
  /\ delivered = {}
  /\ calls = 0

\* the plugins of the room: two loaded and enabled ones, and one of the
\* repository that is not loaded
PluginNames == {"sav/chat", "sav/game-state", "sav/debug"}
InitialPlugins == {"sav/chat", "sav/game-state"}
\* names of one-time cron handlers without the "Once" at their end; the
\* number of the second one does not parse
CronHandlerNames == {"onCron1Seconds", "onCronXSeconds"}
CronJobs == InitialPlugins \X CronHandlerNames
ManagerInit ==
  /\ loadedPlugins = InitialPlugins
  /\ enabledPlugins = InitialPlugins
  /\ suspended = {}
CronInit ==
  /\ onceHandlers = {}
  /\ timeouts = [j \in CronJobs |-> 0]
  /\ cronRan = {}
  /\ cronSets = 0
  /\ outside = {}
\* const roomState of the mock room, its game fields
TestInit == roomState = [gameStarted |-> FALSE, gamePaused |-> FALSE]
ExtInit == ManagerInit /\ CronInit /\ TestInit

Player(auth, conn, name) ==
  [auth |-> auth, conn |-> conn, name |-> name, team |-> 0, admin |-> FALSE]

(***************************************************************************)
(* sav/ban                                                                 *)
(***************************************************************************)

\* mutant of IsBanned: the conn is not looked at
IsBannedAuthOnly(auth, conn) == auth \in DOMAIN bannedAuths

\* onPlayerJoinHandler, the condition
IsBanned(auth, conn) == auth \in DOMAIN bannedAuths \/ conn \in bannedConns

\* [...new Set([conn, ...(bannedAuths.get(auth) || [])])]
JoinConnList(auth, conn) ==
  <<conn>> \o (IF auth \in DOMAIN bannedAuths
               THEN Without(bannedAuths[auth], conn) ELSE <<>>)

\* onPlayerKickedHandler: the new bannedAuths, given the map at the time of
\* the event (recentlyClearedBans is cleared by every such event)
OnPlayerKicked(ba, auth, conn, ban) ==
  IF auth \in DOMAIN ba \/ auth \in recentlyClearedBans THEN ba
  ELSE IF ban THEN MapSet(ba, auth, <<conn>>) ELSE ba

\* mutant of ClearBanConns: the conns of the auth stay banned
ClearBanConnsKept(bc, list) == bc

\* clearBan: bannedAuths.get(auth).forEach((conn) => bannedConns.delete(conn))
ClearBanConns(bc, list) == bc \ Range(list)

\* observation: what the operation before a join of auth was, as far as the
\* claims ask
PrevOf(auth) ==
  IF last.op = "clearBans" THEN "clearBans"
  ELSE IF last.op = "clearBan" /\ last.authWasBanned /\ last.auth = auth
       THEN "clearBan"
  ELSE IF last.op = "join" /\ last.kicked /\ last.connWasBanned
          /\ ~last.authWasBanned /\ last.auth = auth
       THEN "connBan"
  ELSE ""

\* actorAddPlayer followed by the dispatch of onPlayerJoin to sav/ban; a
\* player whose conn the room itself has banned cannot join at all
BanAddPlayer(auth, conn) ==
  /\ Len(players) < MaxPlayers
  /\ ~Includes(nativeBans, conn)
  /\ LET id == Len(players) + 1
         kick == IsBanned(auth, conn)
     IN  /\ players' = Append(players, Player(auth, conn, "n1"))
         /\ IF kick
            THEN \* room.kickPlayer(id, "ban by sav/ban", true): apiKickPlayer,
                 \* then onPlayerKicked, where the auth is banned already
                 /\ bannedConns' = bannedConns \cup {conn}
                 /\ bannedAuths' = MapSet(bannedAuths, auth, JoinConnList(auth, conn))
                 /\ playersOnline' = playersOnline
                 /\ nativeBans' = Push(nativeBans, conn)
                 /\ recentlyClearedBans' = {}
                 /\ banKicked' = banKicked \cup {auth}
            ELSE /\ playersOnline' = Append(playersOnline, id)
                 /\ UNCHANGED <<bannedConns, bannedAuths, nativeBans,
                                recentlyClearedBans, banKicked>>
         /\ last' = [NoLast EXCEPT !.op = "join", !.auth = auth, !.kicked = kick, !.ban = kick,
                       !.authWasBanned = auth \in DOMAIN bannedAuths,
                       !.connWasBanned = conn \in bannedConns,
                       !.prev = PrevOf(auth)]
  /\ UNCHANGED <<restarts, preRestart, nameVars, pluginVars, extVars>>

\* room.kickPlayer(id, reason, ban) on a player in the room: apiKickPlayer,
\* which triggers onPlayerLeave and onPlayerKicked
BanKickPlayer(id, ban) ==
  /\ id \in Range(playersOnline)
  /\ playersOnline' = Without(playersOnline, id)
  /\ nativeBans' = IF ban THEN Push(nativeBans, players[id].conn) ELSE nativeBans
  /\ bannedAuths' = OnPlayerKicked(bannedAuths, players[id].auth, players[id].conn, ban)
  /\ recentlyClearedBans' = {}
  /\ banKicked' = IF ban THEN banKicked \cup {players[id].auth} ELSE banKicked
  /\ last' = [NoLast EXCEPT !.op = "kick", !.auth = players[id].auth, !.kicked = TRUE, !.ban = ban,
                !.authWasBanned = players[id].auth \in DOMAIN bannedAuths,
                !.connWasBanned = players[id].conn \in bannedConns]
  /\ UNCHANGED <<players, bannedConns, restarts, preRestart, nameVars, pluginVars, extVars>>

\* actorRemovePlayer: the player leaves
BanRemovePlayer(id) ==
  /\ id \in Range(playersOnline)
  /\ playersOnline' = Without(playersOnline, id)
  /\ last' = [NoLast EXCEPT !.op = "leave"]
  /\ UNCHANGED <<players, nativeBans, banVars, nameVars, pluginVars, extVars>>

\* room.clearBan(id): sav/ban's clearBan, then the previous function
\* (apiClearBan). room.getPlayer(id, { offlinePlayers: true }) knows every
\* player that ever joined; for a known player whose auth is not banned,
\* bannedAuths.get(auth) is undefined and forEach throws a TypeError before
\* anything is changed and before previousFunction is called.
BanClearBan(id) ==
  /\ id \in 1..(MaxPlayers + 1)
  /\ IF id \in DOMAIN players
     THEN LET auth == players[id].auth IN
          IF auth \in DOMAIN bannedAuths
          THEN /\ bannedConns' = ClearBanConns(bannedConns, bannedAuths[auth])
               /\ bannedAuths' = MapDelete(bannedAuths, auth)
               /\ recentlyClearedBans' = recentlyClearedBans \cup {auth}
               /\ nativeBans' = RemoveFirst(nativeBans, players[id].conn)
               /\ banKicked' = banKicked \ {auth}
               /\ last' = [NoLast EXCEPT !.op = "clearBan",
                             !.auth = auth,
                             !.authWasBanned = TRUE, !.chained = 1]
          ELSE /\ banKicked' = banKicked \ {auth}
               /\ last' = [NoLast EXCEPT !.op = "clearBan",
                             !.auth = auth,
                             !.threw = TRUE]
               /\ UNCHANGED <<bannedConns, bannedAuths, recentlyClearedBans,
                              nativeBans>>
     ELSE \* unknown id: only the previous function runs, and it only logs
          /\ last' = [NoLast EXCEPT !.op = "clearBan", !.chained = 1]
          /\ UNCHANGED <<bannedConns, bannedAuths, recentlyClearedBans,
                         nativeBans, banKicked>>
  /\ UNCHANGED <<players, playersOnline, restarts, preRestart, nameVars, pluginVars, extVars>>

\* room.clearBans(): sav/ban's clearBans, then apiClearBans
BanClearBans ==
  /\ recentlyClearedBans' = recentlyClearedBans \cup DOMAIN bannedAuths
  /\ bannedAuths' = EmptyMap
  /\ bannedConns' = {}
  /\ nativeBans' = NoNativeBans
  /\ banKicked' = {}
  /\ last' = [NoLast EXCEPT !.op = "clearBans", !.chained = 1]
  /\ UNCHANGED <<players, playersOnline, restarts, preRestart, nameVars, pluginVars, extVars>>

\* onTestHandler, "Simulate ban from previous room start": the auth and the
\* conn of a player who has left are put into the ban lists directly; the
\* test does so right after room.clearBans(), with both lists empty
BanTestSimulateBan(id) ==
  /\ id \in DOMAIN players
  /\ id \notin Range(playersOnline)
  /\ bannedAuths = EmptyMap /\ bannedConns = {}
  /\ bannedAuths' = MapSet(bannedAuths, players[id].auth, <<players[id].conn>>)
  /\ bannedConns' = bannedConns \cup {players[id].conn}
  /\ last' = [NoLast EXCEPT !.op = "simulate",
                !.auth = players[id].auth]
  /\ UNCHANGED <<roomVars, recentlyClearedBans, restarts, banKicked,
                 preRestart, nameVars, pluginVars, extVars>>

\* Object.fromEntries over a Set of strings: every element must be an entry
\* object, so it throws a TypeError unless the set is empty
FromEntriesOfSetThrows(s) == s # {}

\* onPersistHandler: the persisted data, or "none" when the handler throws
OnPersist ==
  IF FromEntriesOfSetThrows(bannedConns)
  THEN [saved |-> FALSE, bannedAuths |-> EmptyMap, bannedConns |-> {}]
  ELSE [saved |-> TRUE, bannedAuths |-> bannedAuths, bannedConns |-> {}]

\* the room restarts: onPersist, a fresh room and plugin instance, onRestore
\* with the persisted data (onRestoreHandler returns at once without data)
BanRestart ==
  /\ restarts < MaxRestarts
  /\ restarts' = restarts + 1
  /\ preRestart' = [auths |-> DOMAIN bannedAuths, conns |-> bannedConns]
  /\ LET data == OnPersist IN
       /\ bannedAuths' = IF data.saved THEN data.bannedAuths ELSE EmptyMap
       /\ bannedConns' = IF data.saved THEN data.bannedConns ELSE {}
  /\ recentlyClearedBans' = {}
  /\ players' = <<>>
  /\ playersOnline' = <<>>
  /\ nativeBans' = NoNativeBans
  /\ banKicked' = {}
  /\ last' = [NoLast EXCEPT !.op = "restart"]
  /\ UNCHANGED <<nameVars, pluginVars, extVars>>

BanNext ==
  \/ \E a \in Auths, c \in Conns : BanAddPlayer(a, c)
  \/ \E id \in 1..MaxPlayers, ban \in BOOLEAN : BanKickPlayer(id, ban)
  \/ \E id \in 1..MaxPlayers : BanRemovePlayer(id)
  \/ \E id \in 1..(MaxPlayers + 1) : BanClearBan(id)
  \/ BanClearBans
  \/ \E id \in 1..MaxPlayers : BanTestSimulateBan(id)

BanRestartNext == BanNext \/ BanRestart

Init ==
  /\ RoomInit /\ BanInit /\ NameInit /\ PlayersInit /\ RolesInit
  /\ ExtInit
  /\ last = NoLast
SpecBan == Init /\ [][BanNext]_vars
SpecBanRestart == Init /\ [][BanRestartNext]_vars

(***************************************************************************)
(* sav/force-same-name                                                     *)
(***************************************************************************)

\* onPlayerJoinHandler: the name the player is expected to use
OldName(auth, conn, name) ==
  IF auth \in DOMAIN auths THEN auths[auth]
  ELSE IF conn \in DOMAIN conns THEN conns[conn]
  ELSE name

\* actorAddPlayer followed by the dispatch of onPlayerJoin to
\* sav/force-same-name; the kick (without ban) removes the player again
NameAddPlayer(auth, conn, name) ==
  /\ Len(players) < MaxPlayers
  /\ LET id == Len(players) + 1
         kick == OldName(auth, conn, name) # name
     IN  /\ players' = Append(players, Player(auth, conn, name))
         /\ IF kick
            THEN UNCHANGED <<playersOnline, auths, conns, accepted>>
            ELSE /\ playersOnline' = Append(playersOnline, id)
                 /\ auths' = MapSet(auths, auth, name)
                 /\ conns' = MapSet(conns, conn, name)
                 /\ accepted' = accepted \cup {<<auth, conn, name>>}
         /\ last' = [NoLast EXCEPT !.op = "join", !.auth = auth, !.name = name,
                       !.kicked = kick,
                       !.authOther = \E j \in accepted : j[1] = auth /\ j[3] # name,
                       !.connOther = \E j \in accepted : j[2] = conn /\ j[3] # name]
  /\ UNCHANGED <<nativeBans, banVars, pluginVars, extVars>>

\* actorRemovePlayer: the plugin has no onPlayerLeave handler
NameRemovePlayer(id) ==
  /\ id \in Range(playersOnline)
  /\ playersOnline' = Without(playersOnline, id)
  /\ last' = [NoLast EXCEPT !.op = "leave"]
  /\ UNCHANGED <<players, nativeBans, banVars, nameVars, pluginVars, extVars>>

NameNext ==
  \/ \E a \in Auths, c \in Conns, n \in Names : NameAddPlayer(a, c, n)
  \/ \E id \in 1..MaxPlayers : NameRemovePlayer(id)

SpecName == Init /\ [][NameNext]_vars

(***************************************************************************)
(* sav/players                                                             *)
(*                                                                         *)
(* The native API is asynchronous (file header of sav/players): a call of  *)
(* setPlayerAdmin, setPlayerTeam or kickPlayer is accepted and done later, *)
(* together with the events it triggers.  The synchronous mock room is the *)
(* behaviour in which every request is done right after it was accepted.   *)
(***************************************************************************)
\* number of players that join during one room run
MaxJoins == 2
\* number of calls of setPlayerAdmin, setPlayerTeam and kickPlayer during one
\* room run that do not come from sav/players itself
MaxCalls == 1
\* the conn of the players (sav/players only stores it)
PlayerConns == {"c1"}

\* player.auth of a player whose authentication failed
NullAuth == "null"
\* the players who join: auth and name (the name of a player whose
\* authentication failed is never looked at)
Joiners == ({"a1"} \X Names) \cup {<<NullAuth, "n1">>}
\* const teamIds = [0, 1, 2] of the mock room
TeamIds == {0, 1, 2}
\* the teams a caller passes to room.setPlayerTeam
TeamArgs == {0, 1, 2, 3}
\* config.ghostKick
ghostKick == TRUE

\* $.extend(a, b): the properties of b, and those of a that b has not
Extend(a, b) ==
  [k \in (DOMAIN a) \cup (DOMAIN b) |-> IF k \in DOMAIN b THEN b[k] ELSE a[k]]

\* createInitialPlayerObject
createInitialPlayerObject(id, player) ==
  [auth |-> player.auth, admin |-> player.admin, conn |-> player.conn,
   id |-> id, name |-> player.name, team |-> player.team, online |-> TRUE]

\* createInitialUserdataObject
createInitialUserdataObject == [ids |-> {}, conns |-> {}, names |-> {}]

hasPlayer(pb, id) == id \in DOMAIN pb
isPlayerOnline(pb, id) == pb[id].online

\* apiGetPlayer of the mock room: null for a player who is not in the room
NativeHasPlayer(po, id) == id \in Range(po)
apiGetPlayer(ps, id) ==
  [id |-> id, name |-> ps[id].name, team |-> ps[id].team,
   admin |-> ps[id].admin]

\* room.getPlayer(id) without offlinePlayers: whether it is not null, for the
\* plugin state pb and the native player list po
VisibleIn(pb, po, id) ==
  hasPlayer(pb, id) /\ NativeHasPlayer(po, id) /\ isPlayerOnline(pb, id)
Visible(id) == VisibleIn(playersById, playersOnline, id)
\* room.getPlayer(id), where it is not null
GetPlayerIn(ps, pb, id) == Extend(apiGetPlayer(ps, id), pb[id])
GetPlayer(id) == GetPlayerIn(players, playersById, id)

\* mutant of NormTeam: the team is stored as given
NormTeamRaw(team) == team
\* setPlayerTeam: team == 1 ? 1 : (team == 2 ? 2 : 0)
NormTeam(team) == IF team = 1 THEN 1 ELSE IF team = 2 THEN 2 ELSE 0

\* getPlayerById(playerId, {}).admin = admin: lost for an unknown player
SetAdmin(pb, id, admin) ==
  IF hasPlayer(pb, id) THEN [pb EXCEPT ![id].admin = admin] ELSE pb
SetTeam(pb, id, team) ==
  IF hasPlayer(pb, id) THEN [pb EXCEPT ![id].team = team] ELSE pb

\* the requests of the native API
ReqAdmin(id, admin) == [op |-> "admin", id |-> id, team |-> 0, admin |-> admin]
ReqTeam(id, team)   == [op |-> "team", id |-> id, team |-> team, admin |-> FALSE]
ReqKick(id)         == [op |-> "kick", id |-> id, team |-> 0, admin |-> FALSE]

\* mutant of AuthFailed: no player is turned away
AuthFailedNever(auth) == FALSE
\* onPlayerJoinPreEventHandlerHook: player.auth === null
AuthFailed(auth) == auth = NullAuth

\* mutant of IsGhost: the players with another name are taken for ghosts
IsGhostOtherName(p, id, player) ==
  p.id < id /\ p.name # player.name /\ p.auth = player.auth
\* checkGhosts, the filter
IsGhost(p, id, player) ==
  p.id < id /\ p.name = player.name /\ p.auth = player.auth

\* checkGhosts: the ids of the ghosts of player id in the order of
\* room.getPlayerList(), for the native players ps, the native list po and
\* the plugin state pb
Ghosts(ps, po, pb, id) ==
  SelectSeq(po, LAMBDA g : VisibleIn(pb, po, g)
                           /\ IsGhost(GetPlayerIn(ps, pb, g), id,
                                      GetPlayerIn(ps, pb, id)))

\* checkGhosts, the forEach: room.setPlayerTeam(playerId, p.team) and
\* room.kickPlayer(p.id, "Ghost kick") for every ghost
RECURSIVE GhostRequests(_, _, _, _)
GhostRequests(ps, pb, gs, id) ==
  IF gs = <<>> THEN <<>>
  ELSE <<ReqTeam(id, GetPlayerIn(ps, pb, Head(gs)).team), ReqKick(Head(gs))>>
         \o GhostRequests(ps, pb, Tail(gs), id)
RECURSIVE GhostTeam(_, _, _, _)
GhostTeam(ps, pb, gs, id) ==
  IF gs = <<>> THEN pb
  ELSE GhostTeam(ps, SetTeam(pb, id, NormTeam(GetPlayerIn(ps, pb, Head(gs)).team)),
                 Tail(gs), id)

\* onPlayerLeavePreEventHandlerHook: the player is offline from now on; for
\* a player the plugin has no record of, getUserData(undefined) is undefined
\* and the hook ends in a TypeError without having changed anything
LeaveHook(pb, id) ==
  IF hasPlayer(pb, id) THEN [pb EXCEPT ![id].online = FALSE] ELSE pb
\* onPlayerLeaveEventStateValidator: the handlers of the plugins are called
\* for the players the plugin has a record of
LeaveDelivered(pb, id) ==
  IF hasPlayer(pb, id) THEN {<<"onPlayerLeave", id>>} ELSE {}

\* the user data after onPlayerJoinPreEventHandlerHook for an accepted player
JoinUserData(ud, id, player) ==
  LET u == IF player.auth \in DOMAIN ud THEN ud[player.auth]
           ELSE createInitialUserdataObject
  IN  MapSet(ud, player.auth,
             [ids |-> u.ids \cup {id}, conns |-> u.conns \cup {player.conn},
              names |-> u.names \cup {player.name}])
JoinByConn(bc, id, conn) ==
  MapSet(bc, conn, (IF conn \in DOMAIN bc THEN bc[conn] ELSE {}) \cup {id})

\* actorAddPlayer and the dispatch of onPlayerJoin: the pre-event handler
\* hook of sav/players (with checkGhosts), the validator and the handlers
PlayersAddPlayer(auth, conn, name) ==
  /\ Len(players) < MaxJoins
  /\ ~Includes(nativeBans, conn)
  /\ LET id == Len(players) + 1
         player == Player(auth, conn, name)
         ps == Append(players, player)
         po == Append(playersOnline, id)
         pb == MapSet(playersById, id, createInitialPlayerObject(id, player))
         gs == IF ghostKick THEN Ghosts(ps, po, pb, id) ELSE <<>>
     IN  /\ players' = ps
         /\ playersOnline' = po
         /\ IF AuthFailed(auth)
            THEN /\ nativeQueue' = Append(nativeQueue, ReqKick(id))
                 /\ UNCHANGED <<playersById, userDataByAuth, idToAuth,
                                playersByConn, delivered>>
                 /\ last' = [NoLast EXCEPT !.op = "pjoin", !.auth = auth,
                               !.name = name, !.id = id, !.kicked = TRUE]
            ELSE /\ playersById' = GhostTeam(ps, pb, gs, id)
                 /\ userDataByAuth' = JoinUserData(userDataByAuth, id, player)
                 /\ idToAuth' = MapSet(idToAuth, id, auth)
                 /\ playersByConn' = JoinByConn(playersByConn, id, conn)
                 /\ nativeQueue' = nativeQueue \o GhostRequests(ps, pb, gs, id)
                 /\ delivered' = delivered \cup
                      (IF hasPlayer(pb, id) /\ isPlayerOnline(pb, id)
                       THEN {<<"onPlayerJoin", id>>} ELSE {})
                 /\ last' = [NoLast EXCEPT !.op = "pjoin", !.auth = auth,
                               !.name = name, !.id = id, !.ghosts = Range(gs)]
  /\ UNCHANGED <<nativeBans, banVars, nameVars, extVars, calls, rolesVars>>

\* actorRemovePlayer: a player in the room leaves
PlayersRemovePlayer(id) ==
  /\ id \in Range(playersOnline)
  /\ playersOnline' = Without(playersOnline, id)
  /\ playersById' = LeaveHook(playersById, id)
  /\ delivered' = delivered \cup LeaveDelivered(playersById, id)
  /\ last' = [NoLast EXCEPT !.op = "pleave"]
  /\ UNCHANGED <<players, nativeBans, banVars, nameVars, extVars, userDataByAuth,
                 idToAuth, playersByConn, nativeQueue, calls, rolesVars>>

\* room.setPlayerAdmin(playerId, admin), up to its return
PlayersSetPlayerAdmin(id, admin) ==
  /\ calls < MaxCalls
  /\ id \in 1..Len(players)
  /\ calls' = calls + 1
  /\ playersById' = SetAdmin(playersById, id, admin)
  /\ nativeQueue' = Append(nativeQueue, ReqAdmin(id, admin))
  /\ last' = [NoLast EXCEPT !.op = "setPlayerAdmin", !.id = id,
                !.admin = admin, !.visible = Visible(id)]
  /\ UNCHANGED <<roomVars, banVars, nameVars, extVars, userDataByAuth, idToAuth,
                 playersByConn, delivered, rolesVars>>

\* room.setPlayerTeam(playerId, team), up to its return
PlayersSetPlayerTeam(id, team) ==
  /\ calls < MaxCalls
  /\ id \in 1..Len(players)
  /\ calls' = calls + 1
  /\ playersById' = SetTeam(playersById, id, NormTeam(team))
  /\ nativeQueue' = Append(nativeQueue, ReqTeam(id, team))
  /\ last' = [NoLast EXCEPT !.op = "setPlayerTeam", !.id = id,
                !.team = team, !.visible = Visible(id)]
  /\ UNCHANGED <<roomVars, banVars, nameVars, extVars, userDataByAuth, idToAuth,
                 playersByConn, delivered, rolesVars>>

\* room.kickPlayer(playerId, reason), up to its return: sav/players does not
\* extend kickPlayer
PlayersKickPlayer(id) ==
  /\ calls < MaxCalls
  /\ id \in 1..Len(players)
  /\ calls' = calls + 1
  /\ nativeQueue' = Append(nativeQueue, ReqKick(id))
  /\ last' = [NoLast EXCEPT !.op = "kickPlayer", !.id = id,
                !.visible = Visible(id)]
  /\ UNCHANGED <<roomVars, banVars, nameVars, extVars, playersById, userDataByAuth,
                 idToAuth, playersByConn, delivered, rolesVars>>

\* the native API does the oldest request: apiSetPlayerAdmin,
\* apiSetPlayerTeam or apiKickPlayer of the mock room, with the events they
\* trigger and the pre-event handler hooks of sav/players
NativeApply ==
  /\ nativeQueue # <<>>
  /\ LET r == Head(nativeQueue)
         known == NativeHasPlayer(playersOnline, r.id)
     IN  /\ nativeQueue' = Tail(nativeQueue)
         /\ last' = [NoLast EXCEPT !.op = "apply", !.id = r.id, !.prev = r.op]
         /\ CASE r.op = "admin" /\ known ->
                   /\ players' = [players EXCEPT ![r.id].admin = r.admin]
                   /\ playersById' = SetAdmin(playersById, r.id, r.admin)
                   /\ UNCHANGED <<playersOnline, delivered>>
              [] r.op = "team" /\ known /\ r.team \in TeamIds ->
                   /\ players' = [players EXCEPT ![r.id].team = r.team]
                   /\ playersOnline' = Append(Without(playersOnline, r.id), r.id)
                   /\ playersById' = SetTeam(playersById, r.id, r.team)
                   /\ UNCHANGED delivered
              [] r.op = "kick" /\ known ->
                   /\ playersOnline' = Without(playersOnline, r.id)
                   /\ playersById' = LeaveHook(playersById, r.id)
                   /\ delivered' = delivered \cup LeaveDelivered(playersById, r.id)
                   /\ UNCHANGED players
              [] OTHER ->
                   UNCHANGED <<players, playersOnline, playersById, delivered>>
  /\ UNCHANGED <<nativeBans, banVars, nameVars, extVars, userDataByAuth, idToAuth,
                 playersByConn, calls, rolesVars>>

PlayersNext ==
  \/ \E j \in Joiners, c \in PlayerConns : PlayersAddPlayer(j[1], c, j[2])
  \/ \E id \in 1..MaxJoins : PlayersRemovePlayer(id)
  \/ \E id \in 1..MaxJoins, admin \in BOOLEAN : PlayersSetPlayerAdmin(id, admin)
  \/ \E id \in 1..MaxJoins, team \in TeamArgs : PlayersSetPlayerTeam(id, team)
  \/ \E id \in 1..MaxJoins : PlayersKickPlayer(id)
  \/ NativeApply

SpecPlayers == Init /\ [][PlayersNext]_vars

(***************************************************************************)
(* sav/commands (parseMessage) and sav/roles                               *)
(***************************************************************************)
\* undefined
Undefined == "<undefined>"
\* the roles of the configuration and the passwords players try
RoleNames == {"user", "admin"}
Passwords == {"pw1", "pw2"}
\* the password argument of room.addOrUpdateRole
PasswordArgs == {Undefined, "pw1"}
\* the configuration of the file header, and the one of pluginSpec
ExampleRoles == [r \in RoleNames |-> IF r = "admin" THEN "pw1" ELSE ""]
\* a chat message "!auth ..." as message.split(" ") without its first part
\* "!auth": the parts are words or, between two spaces in a row, empty.
\* The messages are !auth, !auth ROLE, !auth ROLE PASSWORD, the latter with
\* two spaces in a row or with a third word.
AuthMessages ==
  {<<>>} \cup {<<r>> : r \in RoleNames}
    \cup {<<r, p>> : r \in RoleNames, p \in Passwords}
    \cup {<<"", r, p>> : r \in RoleNames, p \in Passwords}
    \cup {<<r, "", p>> : r \in RoleNames, p \in Passwords}
    \cup {<<r, p, "pw1">> : r \in RoleNames, p \in Passwords}
\* config.persistentRoles
persistentRoles == TRUE

\* message.split(separator, limit) on the parts, the first part included;
\* limit -1 is no limit
SplitLimit(parts, limit) ==
  IF limit < 0 \/ limit > Len(parts) + 1 THEN <<"!auth">> \o parts
  ELSE SubSeq(<<"!auth">> \o parts, 1, limit)
\* .filter(arg => arg.length > 0)
NonEmpty(s) == SelectSeq(s, LAMBDA w : w # "")
\* parseMessage(message, numArgsMax).arguments; numArgsMax undefined is -2
parseMessage(parts, numArgsMax) == Tail(NonEmpty(SplitLimit(parts, numArgsMax + 1)))
\* arguments[i] of JavaScript, i counted from 0
ArgAt(s, i) == IF i + 1 \in DOMAIN s THEN s[i + 1] ELSE Undefined

\* mutant of AuthOk: the password is not compared
AuthOkAnyPassword(rs, role, password) == role \in DOMAIN rs /\ rs[role] # ""
\* onCommandAuthHandler: roles.hasOwnProperty(role) && roles[role] ===
\* password && roles[role] !== ``
AuthOk(rs, role, password) ==
  role \in DOMAIN rs /\ rs[role] = password /\ rs[role] # ""

\* the roles of a player / user, an empty set where there is none yet
\* (provideAuthenticationInfo)
RolesOf(m, k) == IF k \in DOMAIN m THEN m[k] ELSE {}

\* onPlayerRoleAdminHandler (onPlayerRole_admin, onPlayerRole_host) calls
\* room.setPlayerAdmin(player.id, added); here the native API is the mock
\* room, where apiSetPlayerAdmin and onPlayerAdminChange happen in the call
AdminRoles == {"admin", "host"}
RoleAdminNative(ps, id, added) ==
  IF added \cap AdminRoles # {} THEN [ps EXCEPT ![id].admin = TRUE] ELSE ps
RoleAdminPlayers(pb, id, added) ==
  IF added \cap AdminRoles # {} THEN SetAdmin(pb, id, TRUE) ELSE pb

\* mutant of JoinRoles: the roles of the user are not given
JoinRolesDefaultOnly(ur, auth, dr) == IF dr # Undefined THEN {dr} ELSE {}
\* onPlayerJoinHandler: the roles the new player is given, config.defaultRole
\* unless it is undefined and the roles of the user
JoinRoles(ur, auth, dr) ==
  (IF dr # Undefined THEN {dr} ELSE {}) \cup RolesOf(ur, auth)

\* a player with a valid auth and no ghost in the room joins: the join hook
\* of sav/players, then onPlayerJoinHandler of sav/roles
RolesAddPlayer(auth, conn, name) ==
  /\ Len(players) < MaxJoins
  /\ LET id == Len(players) + 1
         player == Player(auth, conn, name)
         ps == Append(players, player)
         po == Append(playersOnline, id)
         pb == MapSet(playersById, id, createInitialPlayerObject(id, player))
         added == JoinRoles(userRoles, auth, defaultRole)
     IN  /\ Ghosts(ps, po, pb, id) = <<>>
         /\ players' = RoleAdminNative(ps, id, added)
         /\ playersOnline' = po
         /\ playersById' = RoleAdminPlayers(pb, id, added)
         /\ userDataByAuth' = JoinUserData(userDataByAuth, id, player)
         /\ idToAuth' = MapSet(idToAuth, id, auth)
         /\ playersByConn' = JoinByConn(playersByConn, id, conn)
         /\ delivered' = delivered \cup {<<"onPlayerJoin", id>>}
         /\ playerRoles' = MapSet(playerRoles, id, added)
         /\ userRoles' = MapSet(userRoles, auth, RolesOf(userRoles, auth))
         /\ last' = [NoLast EXCEPT !.op = "rjoin"]
  /\ UNCHANGED <<nativeBans, banVars, nameVars, extVars, nativeQueue, calls, roles,
                 defaultRole>>

\* a player in the room leaves; sav/roles keeps their roles
RolesRemovePlayer(id) ==
  /\ id \in Range(playersOnline)
  /\ playersOnline' = Without(playersOnline, id)
  /\ playersById' = LeaveHook(playersById, id)
  /\ delivered' = delivered \cup LeaveDelivered(playersById, id)
  /\ last' = [NoLast EXCEPT !.op = "rleave"]
  /\ UNCHANGED <<players, nativeBans, banVars, nameVars, extVars, userDataByAuth,
                 idToAuth, playersByConn, nativeQueue, calls, rolesVars>>

\* room.addOrUpdateRole(role, password)
AddOrUpdateRole(role, password) ==
  /\ roles' = MapSet(roles, role, IF password = Undefined THEN "" ELSE password)
  /\ last' = [NoLast EXCEPT !.op = "addOrUpdateRole"]
  /\ UNCHANGED <<roomVars, banVars, nameVars, extVars, playersVars, playerRoles,
                 userRoles, defaultRole>>

\* a player in the room writes "!auth" and the parts: sav/commands triggers
\* onCommand_auth with the arguments of the message and the message, and
\* onCommandAuthHandler gives the role with room.addPlayerRole(playerId,
\* role, persistentRoles)
CommandAuth(id, parts) ==
  /\ Visible(id)
  /\ LET arguments == parseMessage(parts, -2)
         role == ArgAt(arguments, 0)
         password == ArgAt(parseMessage(parts, 2), 1)
         ok == Len(arguments) >= 2 /\ AuthOk(roles, role, password)
         auth == GetPlayer(id).auth
         added == IF ok /\ (role \notin RolesOf(playerRoles, id)
                            \/ (persistentRoles
                                /\ role \notin RolesOf(userRoles, auth)))
                  THEN {role} ELSE {}
     IN  /\ playerRoles' = IF ok THEN MapSet(playerRoles, id,
                                             RolesOf(playerRoles, id) \cup {role})
                           ELSE playerRoles
         /\ userRoles' = IF ok /\ persistentRoles
                         THEN MapSet(userRoles, auth,
                                     RolesOf(userRoles, auth) \cup {role})
                         ELSE userRoles
         /\ playersById' = RoleAdminPlayers(playersById, id, added)
         /\ players' = RoleAdminNative(players, id, added)
         /\ last' = [NoLast EXCEPT !.op = "auth", !.id = id, !.role = role,
                       !.password = ArgAt(arguments, 1), !.granted = ok]
  /\ UNCHANGED <<playersOnline, nativeBans, banVars, nameVars, extVars,
                 userDataByAuth, idToAuth, playersByConn, nativeQueue,
                 delivered, calls, roles, defaultRole>>

RolesNext ==
  \/ \E a \in Auths, c \in PlayerConns : RolesAddPlayer(a, c, "n1")
  \/ \E id \in 1..MaxJoins : RolesRemovePlayer(id)
  \/ \E r \in RoleNames, p \in PasswordArgs : AddOrUpdateRole(r, p)
  \/ \E id \in 1..MaxJoins, m \in AuthMessages : CommandAuth(id, m)

\* sav/roles starts with the configured roles
RolesConfigInit ==
  /\ \/ roles = EmptyMap /\ defaultRole = Undefined
     \/ roles = ExampleRoles /\ defaultRole = "user"
  /\ playerRoles = EmptyMap /\ userRoles = EmptyMap
InitRoles ==
  /\ RoomInit /\ BanInit /\ NameInit /\ PlayersInit /\ RolesConfigInit
  /\ ExtInit
  /\ last = NoLast
SpecRoles == InitRoles /\ [][RolesNext]_vars

(***************************************************************************)
(* sav/roles: the exported functions                                       *)
(***************************************************************************)

\* number of calls of the exported functions of sav/roles during one room run
MaxRoleCalls == 2

\* mutant of addRole: the role counts as new every time
addRoleAlways(rs, role) == TRUE
\* addRole, the returned value: whether the set did not have the role
addRole(rs, role) == role \notin rs

\* hasPlayerRole(playerId, role) for a player sav/players has a record of
hasPlayerRole(pr, id, role) == role \in RolesOf(pr, id)

\* determinePlayerIdAndAuth(playerId) for an integer: the auth of
\* room.getPlayer(playerId, { offlinePlayers: true }); for an id without
\* record it throws "Invalid player ID"
KnownIds == DOMAIN playersById
AuthOfId(id) == playersById[id].auth

\* triggerAuthenticationEvents: the events it triggers, as the kinds
\* "player" (onPlayerRole, onPlayerRole_ROLE, onPlayerRoleAdded/Removed,
\* onPlayerRoleAdded/Removed_ROLE) and "user" (onUserRole, ...)
triggerAuthenticationEvents(playerIdDefined, userRole) ==
  (IF playerIdDefined THEN {"player"} ELSE {})
    \cup (IF userRole THEN {"user"} ELSE {})

\* onPlayerRoleAdminHandler, called for onPlayerRole_admin and
\* onPlayerRole_host: room.setPlayerAdmin(player.id, added), which is
\* setPlayerAdmin of sav/players and then apiSetPlayerAdmin of the mock room
\* with its onPlayerAdminChange event
RoleEventPlayers(pb, id, role, fired, added) ==
  IF fired /\ role \in AdminRoles THEN SetAdmin(pb, id, added) ELSE pb
RoleEventNative(ps, po, id, role, fired, added) ==
  IF fired /\ role \in AdminRoles /\ NativeHasPlayer(po, id)
  THEN [ps EXCEPT ![id].admin = added] ELSE ps

\* room.addPlayerRole(playerId, role, userRole) for a player id
AddPlayerRole(id, role, userRole) ==
  /\ calls < MaxRoleCalls
  /\ calls' = calls + 1
  /\ id \in KnownIds
  /\ LET auth == AuthOfId(id)
         changedPlayerRoles == addRole(RolesOf(playerRoles, id), role)
         changedUserRoles ==
           userRole /\ addRole(RolesOf(userRoles, auth), role)
         rolesChanged == changedPlayerRoles \/ changedUserRoles
     IN  /\ playerRoles' = MapSet(playerRoles, id,
                                  RolesOf(playerRoles, id) \cup {role})
         /\ userRoles' = MapSet(userRoles, auth,
                                RolesOf(userRoles, auth)
                                  \cup (IF userRole THEN {role} ELSE {}))
         /\ playersById' = RoleEventPlayers(playersById, id, role,
                                            rolesChanged, TRUE)
         /\ players' = RoleEventNative(players, playersOnline, id, role,
                                       rolesChanged, TRUE)
         /\ last' = [NoLast EXCEPT !.op = "addPlayerRole", !.id = id,
                       !.role = role, !.userRole = userRole,
                       !.returned = rolesChanged,
                       !.events = IF rolesChanged
                                  THEN triggerAuthenticationEvents(TRUE, userRole)
                                  ELSE {}]
  /\ UNCHANGED <<playersOnline, nativeBans, banVars, nameVars, extVars,
                 userDataByAuth, idToAuth, playersByConn, nativeQueue,
                 delivered, roles, defaultRole>>

\* room.removePlayerRole(playerId, role) for a player id
RemovePlayerRole(id, role) ==
  /\ calls < MaxRoleCalls
  /\ calls' = calls + 1
  /\ id \in KnownIds
  /\ LET auth == AuthOfId(id)
         hadPlayerRole == role \in RolesOf(playerRoles, id)
         hadUserRole == role \in RolesOf(userRoles, auth)
         hadRole == hadPlayerRole \/ hadUserRole
     IN  /\ playerRoles' = MapSet(playerRoles, id,
                                  RolesOf(playerRoles, id) \ {role})
         /\ userRoles' = MapSet(userRoles, auth,
                                RolesOf(userRoles, auth) \ {role})
         /\ playersById' = RoleEventPlayers(playersById, id, role,
                                            hadRole, FALSE)
         /\ players' = RoleEventNative(players, playersOnline, id, role,
                                       hadRole, FALSE)
         /\ last' = [NoLast EXCEPT !.op = "removePlayerRole", !.id = id,
                       !.role = role, !.returned = hadRole,
                       !.events = IF hadRole
                                  THEN triggerAuthenticationEvents(TRUE, hadUserRole)
                                  ELSE {}]
  /\ UNCHANGED <<playersOnline, nativeBans, banVars, nameVars, extVars,
                 userDataByAuth, idToAuth, playersByConn, nativeQueue,
                 delivered, roles, defaultRole>>

\* getUserAuths({ offlineUsers = true }) of sav/players: the parameter has
\* no default value, so destructuring it throws a TypeError when the
\* function is called without argument
getUserAuthsThrows(options) == options = Undefined

\* removeRole, the loop room.getPlayerList().forEach((p) =>
\* removePlayerRole(p.id, role)) over the player ids in ids: the state
\* st = [pr, ur, pb, ps, notified] after it, where notified are the players
\* the role events were triggered for
RECURSIVE RemoveRoleFromPlayers(_, _, _)
RemoveRoleFromPlayers(st, ids, role) ==
  IF ids = <<>> THEN st
  ELSE LET id == Head(ids)
           auth == st.pb[id].auth
           hadRole == role \in RolesOf(st.pr, id) \/ role \in RolesOf(st.ur, auth)
       IN  RemoveRoleFromPlayers(
             [pr |-> MapSet(st.pr, id, RolesOf(st.pr, id) \ {role}),
              ur |-> MapSet(st.ur, auth, RolesOf(st.ur, auth) \ {role}),
              pb |-> RoleEventPlayers(st.pb, id, role, hadRole, FALSE),
              ps |-> RoleEventNative(st.ps, playersOnline, id, role,
                                     hadRole, FALSE),
              notified |-> st.notified \cup (IF hadRole THEN {id} ELSE {})],
             Tail(ids), role)

\* room.removeRole(role): the role is deleted from the configuration and
\* taken from the players of room.getPlayerList(); then
\* room.getPlugin("sav/players").getUserAuths() is called without argument
\* and throws, so the loop over the auths of the users is never reached
RemoveRole(role) ==
  /\ calls < MaxRoleCalls
  /\ calls' = calls + 1
  /\ LET ids == SelectSeq(playersOnline, LAMBDA id : Visible(id))
         st == RemoveRoleFromPlayers(
                 [pr |-> playerRoles, ur |-> userRoles, pb |-> playersById,
                  ps |-> players, notified |-> {}], ids, role)
     IN  /\ roles' = MapDelete(roles, role)
         /\ playerRoles' = st.pr
         /\ userRoles' = st.ur
         /\ playersById' = st.pb
         /\ players' = st.ps
         /\ last' = [NoLast EXCEPT !.op = "removeRole", !.role = role,
                       !.threw = getUserAuthsThrows(Undefined),
                       !.notified = st.notified,
                       !.had = {id \in KnownIds :
                                  hasPlayerRole(playerRoles, id, role)}]
  /\ UNCHANGED <<playersOnline, nativeBans, banVars, nameVars, extVars,
                 userDataByAuth, idToAuth, playersByConn, nativeQueue,
                 delivered, defaultRole>>

RolesApiNext ==
  \/ \E a \in Auths, c \in PlayerConns : RolesAddPlayer(a, c, "n1")
  \/ \E id \in 1..MaxJoins : RolesRemovePlayer(id)
  \/ \E id \in 1..MaxJoins, r \in RoleNames, u \in BOOLEAN :
        AddPlayerRole(id, r, u)
  \/ \E id \in 1..MaxJoins, r \in RoleNames : RemovePlayerRole(id, r)
  \/ \E r \in RoleNames : RemoveRole(r)

\* the room starts with the example configuration of the file header
InitRolesApi ==
  /\ RoomInit /\ BanInit /\ NameInit /\ PlayersInit /\ ExtInit
  /\ roles = ExampleRoles /\ defaultRole = "user"
  /\ playerRoles = EmptyMap /\ userRoles = EmptyMap
  /\ last = NoLast
SpecRolesApi == InitRolesApi /\ [][RolesApiNext]_vars

(***************************************************************************)
(* sav/plugin-control                                                      *)
(***************************************************************************)

\* the properties sav/roles exports: room.xxx = xxx at the end of roles.js
RolesExports ==
  {"addPlayerRole", "addOrUpdateRole", "getPlayerRoles", "hasPlayerRole",
   "ensurePlayerRoles", "getRole", "getRoles", "hasRole", "removePlayerRole",
   "removeRole", "setPlayerRole"}
\* the roles other plugins give to players of a room with sav/plugin-control
ControlRoleNames == {"host", "user"}
\* the arguments of "!plugin load": none, NAME, URL, NAME URL
Urls == {"http://h/p.js", "https://pastebin.com/x1"}
LoadArgs ==
  {<<>>, <<"sav/debug">>, <<"https://pastebin.com/x1">>,
   <<"sav/debug", "http://h/p.js">>}
\* the arguments of "!plugin disable" and "!plugin enable": none, NAME
NameArgs == {<<>>} \cup {<<p>> : p \in PluginNames}

\* makeRawUrl(url): a pastebin URL without "raw" becomes the raw URL
makeRawUrl(url) ==
  IF url = "https://pastebin.com/x1" THEN "https://pastebin.com/raw/x1" ELSE url
\* arguments[0].startsWith(`http`)
StartsWithHttp(a) == a \in Urls

\* ensurePlayerRoles(playerId, roles, plugin) of sav/roles for a player in
\* the room: whether the player has at least one of the roles
ensurePlayerRoles(pr, id, rs) == \E r \in rs : hasPlayerRole(pr, id, r)

\* mutant of EnsureHost: sav/roles exports ensurePlayerRole
EnsureHostExported(id) ==
  [threw |-> FALSE, ok |-> ensurePlayerRoles(playerRoles, id, {"host"})]
\* mutant of EnsureHost: the role check lets every player pass
EnsureHostGranted(id) == [threw |-> FALSE, ok |-> TRUE]
\* roles.ensurePlayerRole(playerId, `host`, room, ...) as the three handlers
\* call it, roles being room.getPlugin(`sav/roles`): a property sav/roles
\* does not export is undefined, and the call throws a TypeError
EnsureHost(id) ==
  IF "ensurePlayerRole" \in RolesExports
  THEN [threw |-> FALSE, ok |-> ensurePlayerRoles(playerRoles, id, {"host"})]
  ELSE [threw |-> TRUE, ok |-> FALSE]

\* room.hasPlugin(pluginName)
hasPlugin(pluginName) == pluginName \in loadedPlugins

\* onCommandPluginLoadHandler: a player in the room writes "!plugin load" and
\* the arguments. The handler is an async function: at await
\* manager.addPlugin(...) it returns to the event loop, and its rest runs in
\* a later turn (suspended records that). addPlugin, the work of the plugin
\* manager, ends with the plugin loaded and enabled or with -1 (loadOk).
CommandPluginLoad(id, arguments, loadOk) ==
  /\ Visible(id)
  /\ LET ensured == EnsureHost(id)
         reached == ~ensured.threw /\ ensured.ok /\ Len(arguments) # 0
         pluginName ==
           IF Len(arguments) > 1 THEN arguments[1]
           ELSE IF StartsWithHttp(arguments[1]) THEN Undefined
           ELSE arguments[1]
         pluginUrl ==
           IF Len(arguments) > 1 THEN makeRawUrl(arguments[2])
           ELSE IF StartsWithHttp(arguments[1]) THEN makeRawUrl(arguments[1])
           ELSE Undefined
         \* the plugin file at the URL defines the plugin sav/debug
         loaded == IF pluginName = Undefined THEN "sav/debug" ELSE pluginName
     IN  /\ loadedPlugins' = IF reached /\ loadOk
                             THEN loadedPlugins \cup {loaded}
                             ELSE loadedPlugins
         /\ enabledPlugins' = IF reached /\ loadOk
                              THEN enabledPlugins \cup {loaded}
                              ELSE enabledPlugins
         /\ suspended' = IF reached
                         THEN suspended \cup {"onCommand_plugin_load"}
                         ELSE suspended
         /\ last' = [NoLast EXCEPT !.op = "pluginLoad", !.id = id,
                       !.threw = ensured.threw, !.managerCalled = reached]
  /\ UNCHANGED <<roomVars, banVars, nameVars, pluginVars, cronVars, roomState>>

\* onCommandPluginDisableHandler: "!plugin disable" and the arguments;
\* manager.disablePluginById returns whether it disabled the plugin
\* (disableOk)
CommandPluginDisable(id, arguments, disableOk) ==
  /\ Visible(id)
  /\ LET ensured == EnsureHost(id)
         pluginName == ArgAt(arguments, 0)
         reached == ~ensured.threw /\ ensured.ok /\ pluginName # Undefined
         disabled == reached /\ hasPlugin(pluginName) /\ disableOk
     IN  /\ enabledPlugins' = IF disabled THEN enabledPlugins \ {pluginName}
                              ELSE enabledPlugins
         /\ last' = [NoLast EXCEPT !.op = "pluginDisable", !.id = id,
                       !.threw = ensured.threw, !.managerCalled = reached]
  /\ UNCHANGED <<roomVars, banVars, nameVars, pluginVars, cronVars, roomState,
                 loadedPlugins, suspended>>

\* onCommandPluginEnableHandler: "!plugin enable" and the arguments
CommandPluginEnable(id, arguments, enableOk) ==
  /\ Visible(id)
  /\ LET ensured == EnsureHost(id)
         pluginName == ArgAt(arguments, 0)
         reached == ~ensured.threw /\ ensured.ok /\ pluginName # Undefined
         enabled == reached /\ hasPlugin(pluginName) /\ enableOk
     IN  /\ enabledPlugins' = IF enabled THEN enabledPlugins \cup {pluginName}
                              ELSE enabledPlugins
         /\ last' = [NoLast EXCEPT !.op = "pluginEnable", !.id = id,
                       !.threw = ensured.threw, !.managerCalled = reached]
  /\ UNCHANGED <<roomVars, banVars, nameVars, pluginVars, cronVars, roomState,
                 loadedPlugins, suspended>>

ControlNext ==
  \/ \E a \in Auths, c \in PlayerConns : RolesAddPlayer(a, c, "n1")
  \/ \E id \in 1..MaxJoins : RolesRemovePlayer(id)
  \/ \E id \in 1..MaxJoins, r \in ControlRoleNames, u \in BOOLEAN :
        AddPlayerRole(id, r, u)
  \/ \E id \in 1..MaxJoins, args \in LoadArgs, ok \in BOOLEAN :
        CommandPluginLoad(id, args, ok)
  \/ \E id \in 1..MaxJoins, args \in NameArgs, ok \in BOOLEAN :
        CommandPluginDisable(id, args, ok)
  \/ \E id \in 1..MaxJoins, args \in NameArgs, ok \in BOOLEAN :
        CommandPluginEnable(id, args, ok)

\* onRoomLinkHandler of sav/plugin-control on the configuration of
\* pluginSpec of sav/roles: there is no role host, and
\* roles.addOrUpdateRole(`host`) adds it without password
InitControl ==
  /\ RoomInit /\ BanInit /\ NameInit /\ PlayersInit /\ ExtInit
  /\ roles = MapSet(EmptyMap, "host", "") /\ defaultRole = Undefined
  /\ playerRoles = EmptyMap /\ userRoles = EmptyMap
  /\ last = NoLast
SpecControl == InitControl /\ [][ControlNext]_vars

(***************************************************************************)
(* sav/cron: one-time cron jobs                                            *)
(***************************************************************************)

\* number of one-time cron handlers plugins set during one room run
MaxCronSets == 2

\* !isNaN(parseInt(handlerName.substr(6, ...))): the handler name has a
\* number after "onCron"
TimeParses(handlerName) == handlerName = "onCron1Seconds"

\* setupCronJobs, its part for one-time cron jobs: for every enabled plugin
\* and every onCron...Once handler of it whose number parses,
\* createOneTimeCronJob deletes the property and calls setTimeout
setupCronJobs(oh, to, en) ==
  LET picked == {j \in oh : j[1] \in en /\ TimeParses(j[2])}
  IN  [oh |-> oh \ picked,
       to |-> [j \in CronJobs |-> to[j] + (IF j \in picked THEN 1 ELSE 0)]]

\* an enabled plugin sets room.onCron...Once = fn in one of its handlers; HHM
\* triggers onHhm_eventHandlerSet, and onHhmEventHandlerSetHandler calls
\* setupCronJobs
SetOnceHandler(p, h) ==
  /\ cronSets < MaxCronSets
  /\ cronSets' = cronSets + 1
  /\ p \in enabledPlugins
  /\ LET st == setupCronJobs(onceHandlers \cup {<<p, h>>}, timeouts,
                             enabledPlugins)
     IN  /\ onceHandlers' = st.oh
         /\ timeouts' = st.to
  /\ last' = [NoLast EXCEPT !.op = "setOnceHandler"]
  /\ UNCHANGED <<roomVars, banVars, nameVars, pluginVars, managerVars,
                 roomState, cronRan, outside>>

\* the callback of setTimeout in createOneTimeCronJob, which the event loop
\* calls in a later turn, outside every event dispatch: it calls the handler
\* if its plugin is enabled, and else sets the property of the plugin again
\* (and HHM triggers onHhm_eventHandlerSet)
CronTimeout(j) ==
  /\ timeouts[j] > 0
  /\ IF j[1] \in enabledPlugins
     THEN /\ cronRan' = cronRan \cup {j}
          /\ outside' = outside \cup {"cronHandler"}
          /\ timeouts' = [timeouts EXCEPT ![j] = @ - 1]
          /\ UNCHANGED onceHandlers
     ELSE LET st == setupCronJobs(onceHandlers \cup {j},
                                  [timeouts EXCEPT ![j] = @ - 1],
                                  enabledPlugins)
          IN  /\ onceHandlers' = st.oh
              /\ timeouts' = st.to
              /\ outside' = outside \cup {"cronRequeue"}
              /\ UNCHANGED cronRan
  /\ last' = [NoLast EXCEPT !.op = "cronTimeout"]
  /\ UNCHANGED <<roomVars, banVars, nameVars, pluginVars, managerVars,
                 roomState, cronSets>>

\* the plugin manager enables or disables a loaded plugin (the state
\* isEnabled() returns in the callback of setTimeout)
ManagerSetEnabled(p, enabled) ==
  /\ p \in loadedPlugins
  /\ (p \in enabledPlugins) # enabled
  /\ enabledPlugins' = IF enabled THEN enabledPlugins \cup {p}
                       ELSE enabledPlugins \ {p}
  /\ last' = [NoLast EXCEPT !.op = "setEnabled"]
  /\ UNCHANGED <<roomVars, banVars, nameVars, pluginVars, cronVars,
                 roomState, loadedPlugins, suspended>>

\* a room with sav/cron and sav/plugin-control: a player, the role host, the
\* async handler of "!plugin load", and the one-time cron jobs
CronNext ==
  \/ RolesAddPlayer("a1", "c1", "n1")
  \/ \E id \in 1..MaxJoins, u \in BOOLEAN : AddPlayerRole(id, "host", u)
  \/ \E id \in 1..MaxJoins, args \in LoadArgs, ok \in BOOLEAN :
        CommandPluginLoad(id, args, ok)
  \/ \E j \in CronJobs : SetOnceHandler(j[1], j[2])
  \/ \E j \in CronJobs : CronTimeout(j)
  \/ \E p \in PluginNames, e \in BOOLEAN : ManagerSetEnabled(p, e)
SpecCron == InitControl /\ [][CronNext]_vars

(***************************************************************************)
(* sav/test: the game state of the mock room                               *)
(***************************************************************************)

\* actor.addPlayer(name, { auth, conn }): the room has no password
TestAddPlayer(auth, conn, name) ==
  /\ Len(players) < MaxPlayers
  /\ ~Includes(nativeBans, conn)
  /\ players' = Append(players, Player(auth, conn, name))
  /\ playersOnline' = Append(playersOnline, Len(players) + 1)
  /\ last' = [NoLast EXCEPT !.op = "addPlayer", !.id = Len(players) + 1]
  /\ UNCHANGED <<nativeBans, banVars, nameVars, pluginVars, extVars>>

\* actor.removePlayer(playerId)
TestRemovePlayer(id) ==
  /\ playersOnline' = Without(playersOnline, id)
  /\ last' = [NoLast EXCEPT !.op = "removePlayer", !.id = id]
  /\ UNCHANGED <<players, nativeBans, banVars, nameVars, pluginVars, extVars>>

\* room.setPlayerAdmin(playerId, admin) of the mock room
apiSetPlayerAdmin(id, admin) ==
  /\ players' = IF NativeHasPlayer(playersOnline, id)
                THEN [players EXCEPT ![id].admin = admin]
                ELSE players
  /\ last' = [NoLast EXCEPT !.op = "setPlayerAdmin", !.id = id]
  /\ UNCHANGED <<playersOnline, nativeBans, banVars, nameVars, pluginVars,
                 extVars>>

\* room.startGame() of the mock room
apiStartGame ==
  /\ roomState' = IF ~roomState.gameStarted
                  THEN [gameStarted |-> TRUE, gamePaused |-> FALSE]
                  ELSE roomState
  /\ last' = [NoLast EXCEPT !.op = "startGame"]
  /\ UNCHANGED <<roomVars, banVars, nameVars, pluginVars, managerVars,
                 cronVars>>

\* room.stopGame() of the mock room
apiStopGame ==
  /\ roomState' = IF roomState.gameStarted
                  THEN [gameStarted |-> FALSE, gamePaused |-> FALSE]
                  ELSE roomState
  /\ last' = [NoLast EXCEPT !.op = "stopGame"]
  /\ UNCHANGED <<roomVars, banVars, nameVars, pluginVars, managerVars,
                 cronVars>>

\* room.pauseGame(pauseState) of the mock room
apiPauseGame(pauseState) ==
  /\ roomState' = IF roomState.gameStarted
                  THEN [roomState EXCEPT !.gamePaused = pauseState]
                  ELSE roomState
  /\ last' = [NoLast EXCEPT !.op = "pauseGame"]
  /\ UNCHANGED <<roomVars, banVars, nameVars, pluginVars, managerVars,
                 cronVars>>

\* the player is in the room and is admin
ActorIsAdmin(id) == NativeHasPlayer(playersOnline, id) /\ players[id].admin

\* actor.startStopGame(playerId)
actorStartStopGame(id) ==
  /\ roomState' = IF ActorIsAdmin(id)
                  THEN [roomState EXCEPT !.gameStarted = ~roomState.gameStarted]
                  ELSE roomState
  /\ last' = [NoLast EXCEPT !.op = "startStopGame", !.id = id]
  /\ UNCHANGED <<roomVars, banVars, nameVars, pluginVars, managerVars,
                 cronVars>>

\* actor.toggleGamePause(playerId)
actorToggleGamePause(id) ==
  /\ roomState' = IF roomState.gameStarted /\ ActorIsAdmin(id)
                  THEN [roomState EXCEPT !.gamePaused = ~roomState.gamePaused]
                  ELSE roomState
  /\ last' = [NoLast EXCEPT !.op = "toggleGamePause", !.id = id]
  /\ UNCHANGED <<roomVars, banVars, nameVars, pluginVars, managerVars,
                 cronVars>>

TestNext ==
  \/ \E a \in Auths : TestAddPlayer(a, "c1", "n1")
  \/ \E id \in 1..MaxPlayers : TestRemovePlayer(id)
  \/ \E id \in 1..MaxPlayers, admin \in BOOLEAN :
        apiSetPlayerAdmin(id, admin)
  \/ apiStartGame
  \/ apiStopGame
  \/ \E pauseState \in BOOLEAN : apiPauseGame(pauseState)
  \/ \E id \in 1..MaxPlayers : actorStartStopGame(id)
  \/ \E id \in 1..MaxPlayers : actorToggleGamePause(id)
SpecTest == Init /\ [][TestNext]_vars

(***************************************************************************)
(* Claims about sav/ban                                                    *)
(***************************************************************************)

\* C1: once a player has been kicked with ban = true, every later
\* onPlayerJoin of a player with the same auth is answered with
\* room.kickPlayer(id, ..., true), until clearBan for a player with that auth
\* or clearBans is called. (banKicked holds exactly the auths kicked with
\* ban = true and not cleared since; an accepted join leaves it unchanged.)
C1_BannedAuthAlwaysKicked ==
  (last.op = "join" /\ last.auth \in banKicked) => last.kicked

\* C2, as stated: after room.clearBan(playerId) for a player whose auth is
\* banned, the next player who joins with that auth is not kicked by sav/ban.
C2_JoinAfterClearBanNeverKicked ==
  [][(last.op = "clearBan" /\ last.authWasBanned
      /\ last'.op = "join" /\ last'.auth = last.auth) => ~last'.kicked]_vars

\* C2, amended: room.clearBan(playerId) for a player whose auth is banned
\* removes the auth and every conn recorded for it from the ban lists, and the
\* next player who joins with that auth is kicked by sav/ban only if the conn
\* they join with is still a banned conn; after room.clearBans() both ban
\* lists are empty and the next player who joins is not kicked.
C2_ClearBanUnbans ==
  [][/\ (last'.op = "clearBan" /\ last'.authWasBanned) =>
          /\ last'.auth \in DOMAIN bannedAuths
          /\ last'.auth \notin DOMAIN bannedAuths'
          /\ Range(bannedAuths[last'.auth]) \cap bannedConns' = {}
     /\ (last.op = "clearBan" /\ last.authWasBanned
         /\ last'.op = "join" /\ last'.auth = last.auth) =>
          (last'.kicked <=> last'.connWasBanned)
     /\ last'.op = "clearBans" => (bannedAuths' = EmptyMap /\ bannedConns' = {})
     /\ (last.op = "clearBans" /\ last'.op = "join") => ~last'.kicked]_vars

\* C2, witness: a player has joined with an auth whose ban clearBan had just
\* cleared, and stays in the room although another conn is still banned
C2_Witness ==
  /\ last.op = "join" /\ last.prev = "clearBan" /\ ~last.kicked
  /\ bannedConns # {}

\* C3: a player who joins with a conn that is among the banned conns is kicked
\* with ban even when their auth was never banned, and that auth is banned
\* afterwards; a player who joins with a banned auth is kicked with ban from
\* any conn.
C3_BannedConnBansAuth ==
  (last.op = "join" /\ (last.connWasBanned \/ last.authWasBanned)) =>
     (last.kicked /\ last.ban /\ last.auth \in DOMAIN bannedAuths)

\* C3, witness: a player joined with a banned conn and an auth that was not
\* banned and was kicked; the next player joined with that auth from a conn
\* that was not banned, and was kicked as well
C3_Witness ==
  /\ last.op = "join" /\ last.prev = "connBan"
  /\ last.kicked /\ last.ban /\ ~last.connWasBanned

\* C4: every auth and every conn that was banned when the room restarted
\* (onPersist, then onRestore in a fresh instance) is banned afterwards.
C4_BansSurviveRestart ==
  last.op = "restart" =>
     /\ preRestart.auths \subseteq DOMAIN bannedAuths
     /\ preRestart.conns \subseteq bannedConns

(***************************************************************************)
(* Claims about sav/force-same-name                                        *)
(***************************************************************************)

\* C5: a joining player is kicked if someone with the same auth or the same
\* conn has joined and been accepted with a different name before; so a player
\* who changes their name is accepted only if both their auth and their conn
\* are new.
C5_OneNamePerAuthAndConn ==
  (last.op = "join" /\ (last.authOther \/ last.connOther)) => last.kicked

(***************************************************************************)
(* Claims about sav/players                                                *)
(***************************************************************************)

\* the request the last call handed to the native API is still waiting
LastRequestPending(r) ==
  nativeQueue # <<>> /\ nativeQueue[Len(nativeQueue)] = r

\* C6: right after room.setPlayerAdmin(id, admin) or room.setPlayerTeam(id,
\* team) has returned for a player room.getPlayer knows, and before the
\* native API has done anything about it, room.getPlayer(id) reports the new
\* admin flag resp. the new team, the team being 1, 2 or else 0.
C6_SetAdminTeamImmediate ==
  /\ (last.op = "setPlayerAdmin" /\ last.visible) =>
        /\ LastRequestPending(ReqAdmin(last.id, last.admin))
        /\ Visible(last.id)
        /\ GetPlayer(last.id).admin = last.admin
  /\ (last.op = "setPlayerTeam" /\ last.visible) =>
        /\ LastRequestPending(ReqTeam(last.id, last.team))
        /\ Visible(last.id)
        /\ GetPlayer(last.id).team \in TeamIds
        /\ (last.team \in {1, 2} => GetPlayer(last.id).team = last.team)
        /\ (last.team \notin {1, 2} => GetPlayer(last.id).team = 0)

\* C6, witness: setPlayerTeam(id, 2) has returned for a player the native
\* room still has in another team, and getPlayer reports team 2
C6_Witness ==
  /\ last.op = "setPlayerTeam" /\ last.visible /\ last.team = 2
  /\ players[last.id].team # 2 /\ GetPlayer(last.id).team = 2

\* C7, as stated: right after room.kickPlayer(id) has returned for a player
\* room.getPlayer knew, and before the native API has dispatched
\* onPlayerLeave, room.getPlayer(id) returns null.
C7_KickImmediate ==
  (last.op = "kickPlayer" /\ last.visible) => ~Visible(last.id)

\* C8: a player who joins with auth === null is kicked at once
\* (room.kickPlayer is called from the join hook), the plugin never has a
\* player or user record for them, and neither onPlayerJoin nor onPlayerLeave
\* for them reaches the handlers of the plugins.
C8_NullAuthRejected ==
  /\ (last.op = "pjoin" /\ last.auth = NullAuth) =>
        LastRequestPending(ReqKick(last.id))
  /\ NullAuth \notin DOMAIN userDataByAuth
  /\ \A id \in 1..Len(players) :
        players[id].auth = NullAuth =>
          /\ ~hasPlayer(playersById, id)
          /\ id \notin DOMAIN idToAuth
          /\ \A c \in DOMAIN playersByConn : id \notin playersByConn[c]
          /\ <<"onPlayerJoin", id>> \notin delivered
          /\ <<"onPlayerLeave", id>> \notin delivered

\* C8, witness: the kick of a player who joined with auth === null has been
\* done and onPlayerLeave of another player has reached the handlers
C8_Witness ==
  /\ last.op = "apply" /\ last.prev = "kick"
  /\ last.id \in 1..Len(players) /\ players[last.id].auth = NullAuth
  /\ ~NativeHasPlayer(playersOnline, last.id)
  /\ \E id \in 1..Len(players) : <<"onPlayerLeave", id>> \in delivered

\* the players room.getPlayerList() returns
VisibleIds == {id \in 1..Len(players) : Visible(id)}

\* C9: with ghostKick, when a player joins with the auth and the name of
\* players room.getPlayerList() returns, room.kickPlayer is called for every
\* one of them and the new player gets the team of one of them; and whenever
\* the native API has nothing left to do, no two players of
\* room.getPlayerList() have the same auth and name.
C9_GhostKick ==
  /\ (last.op = "pjoin" /\ last.auth # NullAuth) =>
        /\ \A g \in 1..(last.id - 1) :
             (Visible(g) /\ GetPlayer(g).auth = last.auth
              /\ GetPlayer(g).name = last.name) =>
                /\ g \in last.ghosts
                /\ \E i \in DOMAIN nativeQueue : nativeQueue[i] = ReqKick(g)
        /\ last.ghosts # {} =>
             /\ \E g \in last.ghosts :
                  GetPlayer(last.id).team = GetPlayer(g).team
             /\ \E g \in last.ghosts :
                  LastRequestPending(ReqKick(g))
                  /\ nativeQueue[Len(nativeQueue) - 1]
                       = ReqTeam(last.id, GetPlayer(last.id).team)
  /\ nativeQueue = <<>> =>
        \A i, j \in VisibleIds :
           (GetPlayer(i).auth = GetPlayer(j).auth
            /\ GetPlayer(i).name = GetPlayer(j).name) => i = j

\* C9, witness: a player has joined while a player with their auth and name
\* was in the room in team 1 or 2, and got that team
C9_Witness ==
  /\ last.op = "pjoin" /\ last.ghosts # {}
  /\ GetPlayer(last.id).team # 0

\* C9, witness of the end: the ghost has been kicked, the new player has been
\* moved, and the room is quiet
C9_WitnessQuiet ==
  /\ nativeQueue = <<>> /\ last.op = "apply" /\ last.prev = "kick"
  /\ \E i \in VisibleIds : \E g \in 1..(i - 1) :
        /\ hasPlayer(playersById, g) /\ ~Visible(g)
        /\ playersById[g].name = GetPlayer(i).name
        /\ players[i].team # 0 /\ players[i].team = playersById[g].team

(***************************************************************************)
(* Claims about sav/roles                                                  *)
(***************************************************************************)

\* C10: the command !auth ROLE PASSWORD gives a role to nobody but the
\* issuing player and their user, and gives no role but ROLE, and that only
\* if ROLE is a role of the configuration whose password is PASSWORD and is
\* not empty; so a role with an empty password is never given by !auth.
C10_AuthOnlyWithPassword ==
  [][last'.op = "auth" =>
       /\ \A id \in DOMAIN playerRoles' :
            \A r \in playerRoles'[id] \ RolesOf(playerRoles, id) :
               /\ id = last'.id /\ r = last'.role
               /\ r \in DOMAIN roles /\ roles[r] = last'.password
               /\ roles[r] # ""
       /\ \A a \in DOMAIN userRoles' :
            \A r \in userRoles'[a] \ RolesOf(userRoles, a) :
               /\ a = players[last'.id].auth /\ r = last'.role
               /\ r \in DOMAIN roles /\ roles[r] = last'.password
               /\ roles[r] # ""]_vars

\* C10, witness: !auth has given the issuing player a role while the
\* configuration has a role with an empty password
C10_Witness ==
  /\ last.op = "auth" /\ last.granted
  /\ last.role \in playerRoles[last.id]
  /\ roles[last.role] = last.password
  /\ \E r \in DOMAIN roles : roles[r] = ""

\* the role sets of player id and of their user differ between the two
\* states of a step
RoleSetsChanged(id) ==
  \/ RolesOf(playerRoles', id) # RolesOf(playerRoles, id)
  \/ RolesOf(userRoles', AuthOfId(id)) # RolesOf(userRoles, AuthOfId(id))

\* C11: addPlayerRole(id, role, userRole) and removePlayerRole(id, role)
\* return true exactly when the role set of the player or of the user
\* changed, and trigger events exactly then; the same call repeated returns
\* false and triggers nothing; hasPlayerRole(id, role) is true after a
\* successful add and false after a remove.
C11_RoleChangeReported ==
  [][/\ last'.op \in {"addPlayerRole", "removePlayerRole"} =>
          /\ last'.returned <=> RoleSetsChanged(last'.id)
          /\ last'.events # {} <=> RoleSetsChanged(last'.id)
          /\ "user" \in last'.events =>
               (last'.userRole
                \/ RolesOf(userRoles', AuthOfId(last'.id))
                     # RolesOf(userRoles, AuthOfId(last'.id)))
     /\ (last'.op = "addPlayerRole" /\ last'.returned) =>
          hasPlayerRole(playerRoles', last'.id, last'.role)
     /\ last'.op = "removePlayerRole" =>
          ~hasPlayerRole(playerRoles', last'.id, last'.role)
     /\ (last.op \in {"addPlayerRole", "removePlayerRole"}
         /\ last'.op = last.op /\ last'.id = last.id
         /\ last'.role = last.role /\ last'.userRole = last.userRole) =>
          (~last'.returned /\ last'.events = {})]_vars

\* C11, witness: removePlayerRole has just taken from a player who left the
\* room a role that addPlayerRole had given to the player and the user
C11_Witness ==
  /\ last.op = "removePlayerRole" /\ last.returned
  /\ last.events = {"player", "user"}
  /\ ~Visible(last.id)
  /\ ~hasPlayerRole(playerRoles, last.id, last.role)

\* C12: the roles given with userRole = true are kept per auth and survive
\* the player leaving: a leave changes no user's roles, and after
\* onPlayerJoin the new player holds every role stored for their auth and
\* config.defaultRole, and the roles stored for the auth are as before.
C12_UserRolesSurvive ==
  [][/\ last'.op = "rleave" => userRoles' = userRoles
     /\ last'.op = "rjoin" =>
          LET id == Len(players')
              auth == players'[id].auth
          IN  /\ RolesOf(userRoles, auth) \subseteq RolesOf(playerRoles', id)
              /\ defaultRole # Undefined =>
                   defaultRole \in RolesOf(playerRoles', id)
              /\ RolesOf(userRoles', auth) = RolesOf(userRoles, auth)]_vars

\* C12, witness: a player has joined with the auth of a player who left the
\* room with a user role, and holds that role and config.defaultRole
C12_Witness ==
  /\ last.op = "rjoin" /\ Len(players) > 1
  /\ LET id == Len(players)
     IN  /\ \E old \in 1..(id - 1) :
                players[old].auth = players[id].auth /\ ~Visible(old)
         /\ "admin" \in userRoles[players[id].auth]
         /\ playerRoles[id] = {"admin", "user"}

\* C13: after removeRole(role) has ended, hasRole(role) is false, no player
\* in the room and no user sav/players knows holds the role, and the role
\* events have been triggered for every player who had it.
C13_RemoveRoleComplete ==
  last.op = "removeRole" =>
     /\ last.role \notin DOMAIN roles
     /\ \A id \in VisibleIds : ~hasPlayerRole(playerRoles, id, last.role)
     /\ \A auth \in DOMAIN userDataByAuth :
           last.role \notin RolesOf(userRoles, auth)
     /\ last.had \subseteq last.notified

(***************************************************************************)
(* Claims about sav/plugin-control                                         *)
(***************************************************************************)

ControlOps == {"pluginLoad", "pluginDisable", "pluginEnable"}

\* C14: "!plugin load", "!plugin enable" and "!plugin disable" change the
\* set of loaded or enabled plugins only when the player who wrote the
\* command has the role host, and for a player without it the handler does
\* not get as far as the plugin manager.
C14_OnlyHostChangesPlugins ==
  [][last'.op \in ControlOps =>
       /\ (loadedPlugins' # loadedPlugins \/ enabledPlugins' # enabledPlugins)
            => hasPlayerRole(playerRoles, last'.id, "host")
       /\ ~hasPlayerRole(playerRoles, last'.id, "host")
            => ~last'.managerCalled]_vars
\* a player without the role host has written "!plugin disable" and the name
\* of an enabled plugin, and a player has the role host
C14_Witness ==
  /\ last.op = "pluginDisable"
  /\ ~hasPlayerRole(playerRoles, last.id, "host")
  /\ \E id \in VisibleIds : hasPlayerRole(playerRoles, id, "host")
  /\ ~last.managerCalled
  /\ enabledPlugins = InitialPlugins

C16_PausedOnlyWhileStarted == roomState.gamePaused => roomState.gameStarted

(***************************************************************************)
(* Claims about room.clearBan of sav/ban                                   *)
(***************************************************************************)

\* C17: room.clearBan(playerId) of sav/ban calls the previous clearBan
\* exactly once and ends without an error, for a known player whose auth is
\* banned, for a known player whose auth is not banned, and for an unknown id.
C17_ClearBanChainsOnce ==
  last.op = "clearBan" => (~last.threw /\ last.chained = 1)

====
